---- MODULE Spec2Model ----
\* wkld-replicate (workloader): replication of workloads between PCE instances.
\* The model follows wkldReplicate() of cmd/wkldreplicate step by step.
\*
\* A Go string is a sequence of tokens: a hostname, an href, an FQDN or one of
\* the separators is one or more tokens, "" is <<>>, + is \o.  The prompt line
\* is a sequence of one-character tokens.
EXTENDS Integers, Sequences, FiniteSets, TLC

\* ------------------------------------------------------------------ bounds
MaxWklds == 2
MaxRuns == 2
MaxFaults == 1

\* ------------------------------------------------------------- Go strings
RECURSIVE IndexFrom(_, _, _)
IndexFrom(s, sub, k) ==
    IF k + Len(sub) - 1 > Len(s) THEN 0
    ELSE IF SubSeq(s, k, k + Len(sub) - 1) = sub THEN k
    ELSE IndexFrom(s, sub, k + 1)

\* strings.Index, 1-based, 0 when sub does not occur
Index(s, sub) == IndexFrom(s, sub, 1)

\* strings.Contains
Contains(s, sub) == Index(s, sub) # 0

\* strings.Split(s, sep)[0]
SplitFirst(s, sep) ==
    IF Contains(s, sep) THEN SubSeq(s, 1, Index(s, sep) - 1) ELSE s

RECURSIVE Join(_, _)
\* strings.Join
Join(list, sep) ==
    IF list = <<>> THEN <<>>
    ELSE IF Len(list) = 1 THEN list[1]
    ELSE list[1] \o sep \o Join(Tail(list), sep)

RECURSIVE SplitAll(_, _)
\* strings.Split of a non-empty string
SplitAll(s, sep) ==
    IF Contains(s, sep)
    THEN <<SubSeq(s, 1, Index(s, sep) - 1)>>
         \o SplitAll(SubSeq(s, Index(s, sep) + Len(sep), Len(s)), sep)
    ELSE <<s>>

LowerChar(c) ==
    CASE c = "Y" -> "y" [] c = "E" -> "e" [] c = "S" -> "s"
      [] c = "N" -> "n" [] c = "O" -> "o" [] OTHER -> c

\* strings.ToLower
ToLower(s) == [k \in 1..Len(s) |-> LowerChar(s[k])]

RECURSIVE SkipSpaces(_)
SkipSpaces(s) == IF s # <<>> /\ Head(s) = " " THEN SkipSpaces(Tail(s)) ELSE s

RECURSIVE TakeToken(_)
TakeToken(s) == IF s = <<>> \/ Head(s) = " " THEN <<>> ELSE <<Head(s)>> \o TakeToken(Tail(s))

\* fmt.Scanln(&prompt): the first space-delimited token of the line typed
Scanln(line) == TakeToken(SkipSpaces(line))

\* utils.PtrToStr: a nil pointer reads as ""
PtrToStr(s) == s

\* --------------------------------------------------------------- literals
WkldReplicateSet == <<"wkld-replicate">>
ManagedSep == <<"-managed-wkld-">>
UnmanagedSep == <<"-unmanaged-wkld-">>
RemoveValue == <<"wkld-replicate-remove">>
Yes == <<"y", "e", "s">>
LegacyKeys == << <<"role">>, <<"app">>, <<"env">>, <<"loc">> >>
ImportHeaderHead == << <<"source">>, <<"hostname">>, <<"description">> >>
ImportHeaderTail == << <<"interfaces">>, <<"external_data_set">>, <<"external_data_reference">> >>
DeleteHeader == << <<"href">>, <<"pce_fqdn">>, <<"pce_name">> >>

\* --------------------------------------------------------- the PCE fleet
\* names configured in pce.yaml, and a name that is not
KnownPCEs == {"A", "B"}
UnknownPCE == "Z"
FQDN(n) == IF n = "A" THEN <<"a.pce">> ELSE IF n = "B" THEN <<"b.pce">> ELSE <<"z.pce">>
Other(n) == IF n = "A" THEN "B" ELSE "A"
\* label dimensions each PCE returns
Dimensions(n) == IF n = "A" THEN << <<"role">>, <<"env">> >> ELSE << <<"env">>, <<"role">>, <<"bu">> >>

Href(k) == <<"/workloads/", ToString(k)>>
GoneHref == Href(0)
Hostnames == { <<"h1">>, <<"h2">> }
NoLabel == [key |-> <<>>, value |-> <<>>]
WebLabel == [key |-> <<"role">>, value |-> <<"web">>]

\* ------------------------------------------- workloads held by the PCEs
\* kind of a workload in an initial PCE state:
\*   managed  a paired VEN                      organic  an unmanaged workload made by hand
\*   self     an unmanaged workload already claimed by its own PCE
\*   pm / pu  a proxy of a managed / unmanaged workload of the other PCE,
\*            whose source is workload 1 ("w1") or a workload that is gone
WkldSpecs ==
    [pce : KnownPCEs, host : Hostnames, kind : {"managed", "organic", "self"}, src : {"none"}]
    \cup [pce : KnownPCEs, host : Hostnames, kind : {"pm", "pu"}, src : {"w1", "gone"}]

SrcHref(s) == IF s.src = "w1" THEN Href(1) ELSE GoneHref

MkWkld(k, s) ==
    [href |-> Href(k),
     hostname |-> s.host,
     mode |-> IF s.kind = "managed" THEN "enforced" ELSE "unmanaged",
     labels |-> IF s.kind = "managed" THEN {WebLabel} ELSE {},
     interfaces |-> IF s.kind = "managed" THEN << <<"eth0:10.0.0.1">> >> ELSE <<>>,
     description |-> <<>>,
     eds |-> IF s.kind \in {"self", "pm", "pu"} THEN WkldReplicateSet ELSE <<>>,
     ref |-> CASE s.kind = "self" -> FQDN(s.pce) \o UnmanagedSep \o Href(k)
               [] s.kind = "pm" -> FQDN(Other(s.pce)) \o ManagedSep \o SrcHref(s)
               [] s.kind = "pu" -> FQDN(Other(s.pce)) \o UnmanagedSep \o SrcHref(s)
               [] OTHER -> <<>>]

\* the workload list of PCE n in the world described by ws
Listing(ws, n) ==
    LET idx == SelectSeq([k \in 1..Len(ws) |-> k], LAMBDA k : ws[k].pce = n)
    IN  [k \in 1..Len(idx) |-> MkWkld(idx[k], ws[idx[k]])]

World(ws) == [n \in KnownPCEs |-> Listing(ws, n)]

\* worlds of at most MaxWklds workloads; hostnames are opaque, so the first
\* workload is called h1, and it is never a proxy of itself
WorldSpecs ==
    UNION { { ws \in [1..n -> WkldSpecs] :
                n > 0 => (ws[1].host = <<"h1">> /\ ws[1].src # "w1") }
            : n \in 0..MaxWklds }

\* a workload without a hostname
NoHostname == [MkWkld(1, [pce |-> "A", host |-> <<"h1">>, kind |-> "organic", src |-> "none"])
                 EXCEPT !.hostname = <<>>]

\* the worlds the flag combinations are run against: a managed workload on A
\* with a stale proxy on B, the same with a workload lacking a hostname on B,
\* and no workloads at all
GateWorlds ==
    LET base == World(<< [pce |-> "A", host |-> <<"h1">>, kind |-> "managed", src |-> "none"],
                         [pce |-> "B", host |-> <<"h2">>, kind |-> "pm", src |-> "gone"] >>)
    IN  { base, [base EXCEPT !["B"] = Append(@, NoHostname)], World(<<>>) }

Versions == { <<21, 11>>, <<22, 4>>, <<22, 5>>, <<23, 0>> }

\* lines the operator may type at the prompt
PromptLines ==
    { <<"y", "e", "s">>, <<"Y", "E", "S">>, <<"Y", "e", "s">>, <<"n", "o">>, <<>>,
      <<"y">>, <<"y", "e", "s", "s">>, <<" ", "y", "e", "s">>, <<"y", "e", "s", " ", "n", "o">> }

\* ------------------------------------------------------------------ state
VARIABLES
    pceList, skipSources, updatePCE, noPrompt,    \* the command's flags
    wklds, version, nextHref,                     \* the PCEs: workloads, versions, next new href
    pces, pceNameMap, skipPCENameMap,             \* locals of wkldReplicate
    managedWkldMap, unmanagedWkldMap,
    legacyPCE, labelKeys,
    wkldImportCsvData, wkldDeleteCsvdata, deleteHrefMap,
    prompt, asked,                                \* the answer read, whether the prompt was shown
    pc, i, j,                                     \* position in wkldReplicate, loop indices
    apiCalls, files, exit,                        \* calls made, CSV files written, how the run ended
    run, faults, importFailed, clean, changed     \* run number and what happened to it

flags == <<pceList, skipSources, updatePCE, noPrompt>>
world == <<wklds, version, nextHref>>
names == <<pces, pceNameMap, skipPCENameMap>>
maps == <<managedWkldMap, unmanagedWkldMap>>
keys == <<legacyPCE, labelKeys>>
batches == <<wkldImportCsvData, wkldDeleteCsvdata, deleteHrefMap>>
history == <<run, importFailed, clean, changed>>
vars == <<flags, world, names, maps, keys, batches, prompt, asked, pc, i, j, apiCalls, files,
          exit, faults, history>>

EmptyMap == [x \in {} |-> x]
Put(map, k, v) == [x \in DOMAIN map \cup {k} |-> IF x = k THEN v ELSE map[x]]
Get(map, k) == IF k \in DOMAIN map THEN map[k] ELSE <<>>
Call(p, op, arg, err) == [pce |-> p, op |-> op, arg |-> arg, err |-> err]
Mutating(c) == c.op \in {"ImportWkldsFromCSV", "DeleteHref"}
MutatingCalls == {k \in 1..Len(apiCalls) : Mutating(apiCalls[k])}

\* the locals as wkldReplicate finds them on entry
Locals ==
    /\ pces = <<>> /\ pceNameMap = {} /\ skipPCENameMap = {}
    /\ managedWkldMap = EmptyMap /\ unmanagedWkldMap = EmptyMap
    /\ legacyPCE = FALSE /\ labelKeys = <<>>
    /\ wkldImportCsvData = <<>> /\ wkldDeleteCsvdata = <<>> /\ deleteHrefMap = EmptyMap
    /\ prompt = <<>> /\ asked = FALSE
    /\ pc = "resolve" /\ i = 1 /\ j = 1
    /\ apiCalls = <<>> /\ files = {} /\ exit = "running"
    /\ importFailed = FALSE /\ changed = FALSE

\* every flag combination against a few worlds
InitGate ==
    /\ pceList \in { <<"A", "B">>, <<"B", "A">>, <<"A", UnknownPCE>> }
    /\ skipSources \in { <<>>, <<"A">>, <<"B">>, <<"A", "B">>, <<UnknownPCE>> }
    /\ updatePCE \in BOOLEAN /\ noPrompt \in BOOLEAN
    /\ wklds \in GateWorlds
    /\ version \in { [n \in KnownPCEs |-> IF n = "A" THEN a ELSE <<22, 5>>] : a \in Versions }
                \cup { [n \in KnownPCEs |-> IF n = "B" THEN <<22, 4>> ELSE <<23, 0>>] }

\* every world of at most MaxWklds workloads, executed without a prompt
InitWorlds ==
    /\ pceList = <<"A", "B">>
    /\ skipSources \in { <<>>, <<"A">>, <<"B">> }
    /\ updatePCE = TRUE /\ noPrompt = TRUE
    /\ wklds \in { World(ws) : ws \in WorldSpecs }
    /\ version = [n \in KnownPCEs |-> <<22, 5>>]

\* a managed and a hand-made unmanaged workload on A and a self-owned unmanaged
\* workload on B: one workload for each branch that emits an upsert row
MixedWorld ==
    World(<< [pce |-> "A", host |-> <<"h1">>, kind |-> "managed", src |-> "none"],
             [pce |-> "A", host |-> <<"h2">>, kind |-> "organic", src |-> "none"],
             [pce |-> "B", host |-> <<"h1">>, kind |-> "self", src |-> "none"] >>)

\* a dry run over the mixed world, in either order of the PCE list
InitMixed ==
    /\ pceList \in { <<"A", "B">>, <<"B", "A">> }
    /\ skipSources = <<>>
    /\ updatePCE = FALSE /\ noPrompt \in BOOLEAN
    /\ wklds = MixedWorld
    /\ version = [n \in KnownPCEs |-> <<22, 5>>]

Init ==
    /\ InitGate \/ InitWorlds \/ InitMixed
    /\ nextHref = MaxWklds + 1
    /\ Locals
    /\ run = 1 /\ faults = 0 /\ clean = FALSE

\* an API call fails at most MaxFaults times in a behaviour
Fault(err) == /\ err => faults < MaxFaults
              /\ faults' = IF err THEN faults + 1 ELSE faults

\* utils.LogError: prints the message and ends the process
LogError(msg) == pc' = "fatal" /\ exit' = msg

\* ------------------------------------------------ lines 71-80: the PCE list
\* utils.GetPCEbyName(name, true): the PCE of pce.yaml with its labels loaded
GetPCEbyNameFails(name, err) == name \notin KnownPCEs \/ err
GetPCEbyNameCalls(name, err) ==
    IF name \in KnownPCEs THEN <<Call(name, "GetLabels", <<>>, err)>> ELSE <<>>
\* the name resolved to the other PCE of pce.yaml
PCE_Other(name) == [FriendlyName |-> Other(name), FQDN |-> FQDN(Other(name)),
                    Version |-> version[Other(name)]]
PCE(name) == [FriendlyName |-> name, FQDN |-> FQDN(name), Version |-> version[name]]

ResolvePCE ==
    /\ pc = "resolve"
    /\ \E err \in BOOLEAN :
        /\ Fault(err)
        /\ apiCalls' = apiCalls \o GetPCEbyNameCalls(pceList[i], err)
        /\ IF GetPCEbyNameFails(pceList[i], err)
           THEN /\ LogError("GetPCEbyName")
                /\ UNCHANGED <<names, i>>
           ELSE /\ pces' = Append(pces, PCE(pceList[i]))
                /\ pceNameMap' = pceNameMap \cup {pceList[i]}
                /\ skipPCENameMap' = skipPCENameMap
                /\ i' = i + 1
                /\ pc' = IF i = Len(pceList) THEN "skipcheck" ELSE "resolve"
                /\ exit' = exit
    /\ UNCHANGED <<flags, world, maps, keys, batches, prompt, asked, j, files, history>>

\* ---------------------------------------------- lines 82-91: skip-source
\* the membership test left out
SkipNotInList_Never(skip, nameMap) == FALSE
\* line 86: a skip-source name that is not in the pce list
SkipNotInList(skip, nameMap) == \E k \in 1..Len(skip) : skip[k] \notin nameMap

CheckSkip ==
    /\ pc = "skipcheck"
    /\ IF skipSources # <<>> /\ SkipNotInList(skipSources, pceNameMap)
       THEN /\ LogError("skip-source")
            /\ UNCHANGED skipPCENameMap
       ELSE /\ skipPCENameMap' = {skipSources[k] : k \in 1..Len(skipSources)}
            /\ pc' = "labelkeys"
            /\ exit' = exit
    /\ UNCHANGED <<flags, world, pces, pceNameMap, maps, keys, batches, prompt, asked, i, j,
                   apiCalls, files, faults, history>>

\* ------------------------------------------- lines 97-125: the label keys
\* the minor version left out of the test
IsLegacy_MajorOnly(v) == v[1] < 22
\* line 100
IsLegacy(v) == v[1] < 22 \/ (v[1] = 22 /\ v[2] < 5)
AnyLegacy(ps) == \E k \in 1..Len(ps) : IsLegacy(ps[k].Version)
ImportHeader(lk) == ImportHeaderHead \o lk \o ImportHeaderTail

GetLabelKeys ==
    /\ pc = "labelkeys"
    /\ legacyPCE' = AnyLegacy(pces)
    /\ \E err \in BOOLEAN :
        /\ Fault(err /\ ~legacyPCE')
        /\ (err => ~legacyPCE')
        /\ apiCalls' = IF legacyPCE' THEN apiCalls
                       ELSE Append(apiCalls, Call(pces[1].FriendlyName, "GetLabelDimensions", <<>>, err))
        /\ IF err
           THEN /\ LogError("GetLabelDimensions")
                /\ UNCHANGED <<labelKeys, batches, i>>
           ELSE /\ labelKeys' = IF legacyPCE' THEN LegacyKeys ELSE Dimensions(pces[1].FriendlyName)
                /\ wkldImportCsvData' = <<ImportHeader(labelKeys')>>
                /\ wkldDeleteCsvdata' = <<DeleteHeader>>
                /\ deleteHrefMap' = EmptyMap
                /\ i' = 1
                /\ pc' = "collect"
                /\ exit' = exit
    /\ UNCHANGED <<flags, world, names, maps, prompt, asked, j, files, history>>

\* --------------------------------------------- lines 51-61: labelSlice
\* illumioapi Workload.GetLabelByKey: the workload's label of that key, or an empty label
GetLabelByKey(w, k) ==
    IF \E l \in w.labels : l.key = k THEN CHOOSE l \in w.labels : l.key = k ELSE NoLabel

\* a key the workload has no label for is left out of the slice
labelSlice_SkipMissing(w, pce, lk) ==
    LET has == SelectSeq([k \in 1..Len(lk) |-> k], LAMBDA k : GetLabelByKey(w, lk[k]).key # <<>>)
    IN  [k \in 1..Len(has) |-> GetLabelByKey(w, lk[has[k]]).value]
\* the sentinel replaced by the empty value of the missing label
labelSlice_EmptyValue(w, pce, lk) ==
    [k \in 1..Len(lk) |-> GetLabelByKey(w, lk[k]).value]
labelSlice(w, pce, lk) ==
    [k \in 1..Len(lk) |->
        IF GetLabelByKey(w, lk[k]).key = <<>> THEN RemoveValue
        ELSE GetLabelByKey(w, lk[k]).value]

\* wkldexport.InterfaceToString: one descriptor per interface
InterfaceToString(w) == w.interfaces

\* ------------------------------------------- lines 127-192: collection
GetMode(w) == w.mode

\* lines 161 and 177: the key of both workload maps
MapKey(p, w) == p.FQDN \o w.hostname

\* lines 165-170
ManagedRow(p, w, lk) ==
    <<  <<p.FriendlyName>>, w.hostname, <<"managed ven on ">> \o p.FQDN >>
    \o labelSlice(w, p, lk)
    \o << Join(InterfaceToString(w), <<";">>),
          WkldReplicateSet,
          p.FQDN \o ManagedSep \o w.href >>

\* lines 153-184 from workload k of the list on
RECURSIVE CollectLoop(_, _, _, _, _)
CollectLoop(p, ws, k, lk, acc) ==
    IF k > Len(ws) THEN acc
    ELSE CollectLoop(p, ws, k + 1, lk,
            IF GetMode(ws[k]) # "unmanaged"
            THEN [acc EXCEPT !.m = Put(@, MapKey(p, ws[k]), [pce |-> p, workload |-> ws[k]]),
                             !.rows = Append(@, ManagedRow(p, ws[k], lk))]
            ELSE [acc EXCEPT !.u = Put(@, MapKey(p, ws[k]), [pce |-> p, workload |-> ws[k]])])

\* line 154
HostnameMissing(ws) == \E k \in 1..Len(ws) : ws[k].hostname = <<>>

\* no PCE is skipped as a source
IsSkipSource_Never(p, skipMap) == FALSE
\* line 131
IsSkipSource(p, skipMap) == p.FriendlyName \in skipMap

\* the error of GetWklds dropped
GetWkldsFatal_Ignored(err) == FALSE
\* lines 142-144: an error of GetWklds ends the run
GetWkldsFatal(err) == err

Collect ==
    /\ pc = "collect"
    /\ LET p == pces[i] IN
       IF IsSkipSource(p, skipPCENameMap)
       THEN /\ i' = i + 1
            /\ pc' = IF i = Len(pces) THEN "reconcile" ELSE "collect"
            /\ UNCHANGED <<maps, batches, apiCalls, exit, faults>>
       ELSE \E err \in BOOLEAN :
            /\ Fault(err)
            /\ apiCalls' = Append(apiCalls, Call(p.FriendlyName, "GetWklds", <<>>, err))
            /\ deleteHrefMap' = Put(deleteHrefMap, p.FQDN, <<>>)
            /\ wkldDeleteCsvdata' = wkldDeleteCsvdata
            /\ IF GetWkldsFatal(err)
               THEN /\ LogError("GetWklds")
                    /\ UNCHANGED <<maps, wkldImportCsvData, i>>
               ELSE IF HostnameMissing(wklds[p.FriendlyName])
               THEN /\ LogError("hostname")
                    /\ UNCHANGED <<maps, wkldImportCsvData, i>>
               ELSE LET acc == CollectLoop(p, wklds[p.FriendlyName], 1, labelKeys,
                                   [m |-> managedWkldMap, u |-> unmanagedWkldMap,
                                    rows |-> wkldImportCsvData])
                    IN  /\ managedWkldMap' = acc.m
                        /\ unmanagedWkldMap' = acc.u
                        /\ wkldImportCsvData' = acc.rows
                        /\ i' = i + 1
                        /\ pc' = IF i = Len(pces) THEN "reconcile" ELSE "collect"
                        /\ exit' = exit
    /\ UNCHANGED <<flags, world, names, keys, prompt, asked, j, files, history>>

\* ------------------------------- lines 194-232: the unmanaged workloads
\* lines 198-201 and 210-211
UnmanagedRow(wkld, eds, ref, lk) ==
    <<  <<wkld.pce.FriendlyName>>, wkld.workload.hostname,
        <<"unmanaged workload on ">> \o wkld.pce.FQDN >>
    \o labelSlice(wkld.workload, wkld.pce, lk)
    \o << Join(InterfaceToString(wkld.workload), <<";">>), eds, ref >>

\* the dataset test inverted
NotInDataset_Inverted(wkld) == PtrToStr(wkld.workload.eds) = WkldReplicateSet
\* line 197
NotInDataset(wkld) == PtrToStr(wkld.workload.eds) # WkldReplicateSet
\* every replicated workload taken for one owned by its own PCE
OwnedBySamePCE_Always(wkld) == TRUE
\* line 209
OwnedBySamePCE(wkld) == wkld.pce.FQDN = SplitFirst(PtrToStr(wkld.workload.ref), UnmanagedSep)
\* the managed map looked up by the reference alone, hostname forgotten
ManagedSourceGone_NoHostname(wkld, mmap) ==
    SplitFirst(PtrToStr(wkld.workload.ref), ManagedSep) \notin {SubSeq(x, 1, 1) : x \in DOMAIN mmap}
\* lines 217-218
ManagedSourceGone(wkld, mmap) ==
    SplitFirst(PtrToStr(wkld.workload.ref), ManagedSep) \o wkld.workload.hostname \notin DOMAIN mmap
\* lines 226-227
UnmanagedSourceGone(wkld, umap) ==
    SplitFirst(PtrToStr(wkld.workload.ref), UnmanagedSep) \o wkld.workload.hostname \notin DOMAIN umap

\* what the loop body does with one unmanaged workload
Rule(wkld, mmap, umap) ==
    IF NotInDataset(wkld) THEN "claim"
    ELSE IF OwnedBySamePCE(wkld) THEN "refresh"
    ELSE IF Contains(PtrToStr(wkld.workload.ref), ManagedSep)
         THEN (IF ManagedSourceGone(wkld, mmap) THEN "delete" ELSE "keep")
    ELSE IF Contains(PtrToStr(wkld.workload.ref), UnmanagedSep)
         THEN (IF UnmanagedSourceGone(wkld, umap) THEN "delete" ELSE "keep")
    ELSE "keep"

ReconcileOne(acc, wkld, mmap, umap, lk) ==
    CASE Rule(wkld, mmap, umap) = "claim" ->
            [acc EXCEPT !.rows = Append(@, UnmanagedRow(wkld, WkldReplicateSet,
                             wkld.pce.FQDN \o UnmanagedSep \o wkld.workload.href, lk))]
      [] Rule(wkld, mmap, umap) = "refresh" ->
            [acc EXCEPT !.rows = Append(@, UnmanagedRow(wkld, PtrToStr(wkld.workload.eds),
                             PtrToStr(wkld.workload.ref), lk))]
      [] Rule(wkld, mmap, umap) = "delete" ->
            [acc EXCEPT !.del = Append(@, <<wkld.workload.href, wkld.pce.FQDN,
                                            <<wkld.pce.FriendlyName>> >>),
                        !.dmap = Put(@, wkld.pce.FQDN,
                                     Append(Get(@, wkld.pce.FQDN), wkld.workload.href))]
      [] OTHER -> acc

RECURSIVE ReconcileLoop(_, _, _, _, _, _)
ReconcileLoop(order, k, acc, mmap, umap, lk) ==
    IF k > Len(order) THEN acc
    ELSE ReconcileLoop(order, k + 1, ReconcileOne(acc, umap[order[k]], mmap, umap, lk),
                       mmap, umap, lk)

\* a Go map is ranged over in any order
Orders(S) == { o \in [1..Cardinality(S) -> S] :
                 \A a, b \in 1..Cardinality(S) : a # b => o[a] # o[b] }

Reconcile ==
    /\ pc = "reconcile"
    /\ \E order \in Orders(DOMAIN unmanagedWkldMap) :
        LET acc == ReconcileLoop(order, 1,
                       [rows |-> wkldImportCsvData, del |-> wkldDeleteCsvdata,
                        dmap |-> deleteHrefMap],
                       managedWkldMap, unmanagedWkldMap, labelKeys)
        IN  /\ wkldImportCsvData' = acc.rows
            /\ wkldDeleteCsvdata' = acc.del
            /\ deleteHrefMap' = acc.dmap
    /\ pc' = "write"
    /\ UNCHANGED <<flags, world, names, maps, keys, prompt, asked, i, j, apiCalls, files, exit,
                   faults, history>>

\* --------------------------------------------- lines 234-256: the CSVs
\* the length test left out
HasRows_Always(csv) == TRUE
\* lines 236 and 248: a batch is exported when it has a data row
HasRows(csv) == Len(csv) > 1

WriteCSV ==
    /\ pc = "write"
    /\ files' = files \cup (IF HasRows(wkldImportCsvData) THEN {"wkld-import"} ELSE {})
                      \cup (IF HasRows(wkldDeleteCsvdata) THEN {"wkld-delete"} ELSE {})
    /\ pc' = "gate"
    /\ UNCHANGED <<flags, world, names, maps, keys, batches, prompt, asked, i, j, apiCalls,
                   exit, faults, history>>

\* ------------------------------------- lines 260-277: dry run and prompt
\* the dry-run return left out
DryRunOnly_Never == FALSE
\* line 261
DryRunOnly == ~updatePCE
\* line 268
PromptNeeded == updatePCE /\ ~noPrompt
\* the answer compared without lowering it
PromptDenied_CaseSensitive(answer) == answer # Yes
\* line 272
PromptDenied(answer) == ToLower(answer) # Yes

DryRun ==
    /\ pc = "gate"
    /\ DryRunOnly
    /\ pc' = "done"
    /\ exit' = "dry-run"
    /\ UNCHANGED <<flags, world, names, maps, keys, batches, prompt, asked, i, j, apiCalls,
                   files, faults, history>>

Prompt ==
    /\ pc = "gate"
    /\ ~DryRunOnly
    /\ PromptNeeded
    /\ asked' = TRUE
    /\ \E line \in PromptLines :
        /\ prompt' = Scanln(line)
        /\ IF PromptDenied(prompt')
           THEN pc' = "done" /\ exit' = "denied" /\ i' = i
           ELSE pc' = "import" /\ exit' = exit /\ i' = 1
    /\ UNCHANGED <<flags, world, names, maps, keys, batches, j, apiCalls, files, faults,
                   history>>

NoPrompt ==
    /\ pc = "gate"
    /\ ~DryRunOnly
    /\ ~PromptNeeded
    /\ pc' = "import"
    /\ i' = 1
    /\ UNCHANGED <<flags, world, names, maps, keys, batches, prompt, asked, j, apiCalls,
                   files, exit, faults, history>>

\* ---------------------------- wkldimport.ImportWkldsFromCSV on one PCE
\* create if no workload has the row's hostname, update the workload if one has
ImportLabels(labels, lk, vals) ==
    { l \in labels : \A k \in 1..Len(lk) : lk[k] # l.key }
    \cup { [key |-> lk[k], value |-> vals[k]] : k \in { x \in 1..Len(lk) : vals[x] # RemoveValue } }

ImportInterfaces(str) == IF str = <<>> THEN <<>> ELSE SplitAll(str, <<";">>)

ImportRow(listing, header, row, fresh) ==
    LET n == Len(header)
        lk == SubSeq(header, 4, n - 3)
        hit == { k \in 1..Len(listing) : listing[k].hostname = row[2] }
        last == CHOOSE k \in hit : \A x \in hit : x <= k
    IN  IF hit = {}
        THEN [listing |-> Append(listing,
                 [href |-> Href(fresh), hostname |-> row[2], mode |-> "unmanaged",
                  labels |-> ImportLabels({}, lk, SubSeq(row, 4, n - 3)),
                  interfaces |-> ImportInterfaces(row[n - 2]),
                  description |-> row[3], eds |-> row[n - 1], ref |-> row[n]]),
              fresh |-> fresh + 1]
        ELSE [listing |-> [listing EXCEPT ![last] =
                 [@ EXCEPT !.labels = ImportLabels(@, lk, SubSeq(row, 4, n - 3)),
                           !.description = row[3], !.eds = row[n - 1], !.ref = row[n]]],
              fresh |-> fresh]

RECURSIVE ImportRows(_, _, _, _)
ImportRows(listing, csv, k, fresh) ==
    IF k > Len(csv) THEN [listing |-> listing, fresh |-> fresh]
    ELSE LET r == ImportRow(listing, csv[1], csv[k], fresh)
         IN  ImportRows(r.listing, csv, k + 1, r.fresh)

ImportWkldsFromCSV(listing, csv, fresh) == ImportRows(listing, csv, 2, fresh)

\* illumioapi PCE.DeleteHref on a workload href
DeleteHref(listing, href) == SelectSeq(listing, LAMBDA w : w.href # href)
HasHref(listing, href) == \E k \in 1..Len(listing) : listing[k].href = href

\* ------------------------------------------- lines 279-308: the actions
\* lines 300-302: an error of DeleteHref goes to utils.LogError
DeleteHrefFatal(err) == err

\* the hrefs scheduled for any PCE
DeletesFor_Any(p, dmap) == Get(dmap, FQDN("A")) \o Get(dmap, FQDN("B"))
\* line 297
DeletesFor(p, dmap) == Get(dmap, p.FQDN)

\* the loop of line 280 moves to the next PCE, or the command ends
NextPCE ==
    /\ i' = i + 1
    /\ pc' = IF i = Len(pces) THEN "done" ELSE "import"
    /\ exit' = IF i = Len(pces) THEN "complete" ELSE exit

ApplyImport ==
    /\ pc = "import"
    /\ LET p == pces[i] IN
       /\ IF HasRows(wkldImportCsvData)
          THEN \E err \in BOOLEAN :
               LET r == ImportWkldsFromCSV(wklds[p.FriendlyName], wkldImportCsvData, nextHref)
               IN  /\ Fault(err)
                   /\ apiCalls' = Append(apiCalls, Call(p.FriendlyName, "ImportWkldsFromCSV", <<>>, err))
                   /\ wklds' = IF err THEN wklds ELSE [wklds EXCEPT ![p.FriendlyName] = r.listing]
                   /\ nextHref' = IF err THEN nextHref ELSE r.fresh
                   /\ importFailed' = (importFailed \/ err)
                   /\ changed' = (changed \/ wklds' # wklds)
          ELSE UNCHANGED <<apiCalls, wklds, nextHref, importFailed, changed, faults>>
       /\ IF HasRows(wkldDeleteCsvdata) /\ DeletesFor(p, deleteHrefMap) # <<>>
          THEN pc' = "delete" /\ j' = 1 /\ i' = i /\ exit' = exit
          ELSE NextPCE /\ j' = j
    /\ UNCHANGED <<flags, version, names, maps, keys, batches, prompt, asked, files, run, clean>>

ApplyDelete ==
    /\ pc = "delete"
    /\ LET p == pces[i]
           href == DeletesFor(p, deleteHrefMap)[j]
       IN  \E err \in BOOLEAN :
           /\ Fault(err)
           /\ apiCalls' = Append(apiCalls, Call(p.FriendlyName, "DeleteHref", href,
                                           err \/ ~HasHref(wklds[p.FriendlyName], href)))
           /\ IF DeleteHrefFatal(err \/ ~HasHref(wklds[p.FriendlyName], href))
              THEN /\ LogError("DeleteHref")
                   /\ UNCHANGED <<wklds, i, j>>
              ELSE /\ wklds' = [wklds EXCEPT ![p.FriendlyName] = DeleteHref(@, href)]
                   /\ IF j = Len(DeletesFor(p, deleteHrefMap))
                      THEN NextPCE /\ j' = j
                      ELSE j' = j + 1 /\ i' = i /\ pc' = "delete" /\ exit' = exit
    /\ UNCHANGED <<flags, version, nextHref, names, maps, keys, batches, prompt, asked, files,
                   history>>

\* -------------------------------------------------- the command run again
NextRun ==
    /\ pc = "done"
    /\ exit = "complete"
    /\ run < MaxRuns
    /\ run' = run + 1
    /\ clean' = ~importFailed
    /\ pces' = <<>> /\ pceNameMap' = {} /\ skipPCENameMap' = {}
    /\ managedWkldMap' = EmptyMap /\ unmanagedWkldMap' = EmptyMap
    /\ legacyPCE' = FALSE /\ labelKeys' = <<>>
    /\ wkldImportCsvData' = <<>> /\ wkldDeleteCsvdata' = <<>> /\ deleteHrefMap' = EmptyMap
    /\ prompt' = <<>> /\ asked' = FALSE
    /\ pc' = "resolve" /\ i' = 1 /\ j' = 1
    /\ apiCalls' = <<>> /\ files' = {} /\ exit' = "running"
    /\ importFailed' = FALSE /\ changed' = FALSE
    /\ UNCHANGED <<flags, world, faults>>

Next ==
    \/ ResolvePCE
    \/ CheckSkip
    \/ GetLabelKeys
    \/ Collect
    \/ Reconcile
    \/ WriteCSV
    \/ DryRun
    \/ Prompt
    \/ NoPrompt
    \/ ApplyImport
    \/ ApplyDelete
    \/ NextRun

Spec == Init /\ [][Next]_vars

\* ================================================================ properties
Names(seq) == {seq[k] : k \in 1..Len(seq)}
\* the instances whose workloads a run collects
IsSource(a) == a \in Names(pceList) /\ a \notin Names(skipSources)
\* the text of a reference after its separator
AfterSep(ref, sep) == SubSeq(ref, Index(ref, sep) + Len(sep), Len(ref))
IsUnmanaged(w) == w.mode = "unmanaged"
\* reconciliation has just ended: both batches are final, no PCE has been changed
Reconciled == pc = "write"
\* the CSV step is behind
PastWrite == pc \in {"gate", "import", "delete", "done"} \/ (pc = "fatal" /\ exit = "DeleteHref")
DeleteScheduled(a, w) ==
    /\ \E k \in 2..Len(wkldDeleteCsvdata) : wkldDeleteCsvdata[k] = <<w.href, FQDN(a), <<a>> >>
    /\ w.href \in Names(Get(deleteHrefMap, FQDN(a)))
\* workload k of a's list is the last unmanaged one of its hostname there
LastOfHostname(a, k) ==
    \A x \in (k + 1)..Len(wklds[a]) :
        ~(IsUnmanaged(wklds[a][x]) /\ wklds[a][x].hostname = wklds[a][k].hostname)

\* C1: with update-pce false no ImportWkldsFromCSV and no DeleteHref is ever
\* issued, whatever no-prompt is; the prompt is not shown and the run ends as
\* a dry run once the CSVs are written.
C1_DryRunNoMutation ==
    ~updatePCE =>
        /\ MutatingCalls = {}
        /\ pc \notin {"import", "delete"}
        /\ ~asked
        /\ pc = "done" => exit = "dry-run"

C1_Witness ==
    /\ ~updatePCE /\ noPrompt
    /\ pc = "done" /\ exit = "dry-run"
    /\ Len(wkldImportCsvData) > 1 /\ Len(wkldDeleteCsvdata) > 1

\* the spellings of "yes" in any case
YesAnswers == { <<y, e, s>> : y \in {"y", "Y"}, e \in {"e", "E"}, s \in {"s", "S"} }

\* C2: with update-pce true and no-prompt false, an import or delete happens
\* only after the prompt was answered with "yes" in any case; an answer that
\* is "yes" in some case is not denied; any other answer ends the run as
\* denied with no mutating call.  With no-prompt true the prompt is never
\* shown and the run goes on to the apply phase.
C2_ConfirmationGate ==
    /\ (updatePCE /\ ~noPrompt /\ (MutatingCalls # {} \/ pc \in {"import", "delete"}))
            => (asked /\ prompt \in YesAnswers)
    /\ (asked /\ prompt \in YesAnswers) => exit # "denied"
    /\ (asked /\ prompt \notin YesAnswers)
            => (pc = "done" /\ exit = "denied" /\ MutatingCalls = {})
    /\ asked => (updatePCE /\ ~noPrompt)
    /\ (updatePCE /\ noPrompt /\ pc = "done") => exit = "complete"

C2_Witness ==
    /\ updatePCE /\ ~noPrompt /\ asked
    /\ prompt = <<"Y", "E", "S">>
    /\ MutatingCalls # {}

\* a proxy on a of a managed workload of b whose href is no longer managed on b
ProxyOfGoneManaged(a, w) ==
    /\ IsUnmanaged(w) /\ w.eds = WkldReplicateSet
    /\ Contains(w.ref, ManagedSep)
    /\ \E b \in KnownPCEs \ {a} :
        /\ SplitFirst(w.ref, ManagedSep) = FQDN(b)
        /\ ~\E x \in 1..Len(wklds[b]) :
              /\ ~IsUnmanaged(wklds[b][x])
              /\ wklds[b][x].href = AfterSep(w.ref, ManagedSep)

\* the run collects a managed workload of the proxy's hostname from the PCE
\* the proxy's reference names
ManagedNamesake(w) ==
    \E b \in KnownPCEs :
        /\ IsSource(b)
        /\ SplitFirst(w.ref, ManagedSep) = FQDN(b)
        /\ \E x \in 1..Len(wklds[b]) :
              ~IsUnmanaged(wklds[b][x]) /\ wklds[b][x].hostname = w.hostname

SourceStillExists(w) ==
    \E b \in KnownPCEs : \E x \in 1..Len(wklds[b]) :
        /\ wklds[b][x].hostname = w.hostname
        /\ \/ /\ Contains(w.ref, ManagedSep)
              /\ w.ref = FQDN(b) \o ManagedSep \o wklds[b][x].href
              /\ ~IsUnmanaged(wklds[b][x])
           \/ /\ Contains(w.ref, UnmanagedSep)
              /\ w.ref = FQDN(b) \o UnmanagedSep \o wklds[b][x].href
              /\ IsUnmanaged(wklds[b][x])

\* C4: no workload whose source workload still exists on its source instance
\* is scheduled for deletion, in any run, skip-source or not.
C4_DeleteOnlyWhenSourceGone ==
    Reconciled =>
        \A a \in Names(pceList) : \A k \in 1..Len(wklds[a]) :
            DeleteScheduled(a, wklds[a][k]) => ~SourceStillExists(wklds[a][k])

\* the upsert rows claiming workload w of instance a
ClaimRows(a, w) ==
    { k \in 2..Len(wkldImportCsvData) :
        /\ wkldImportCsvData[k][Len(wkldImportCsvData[k])] = FQDN(a) \o UnmanagedSep \o w.href
        /\ wkldImportCsvData[k][Len(wkldImportCsvData[k]) - 1] = WkldReplicateSet }

NeverReplicated(w) == IsUnmanaged(w) /\ w.eds # WkldReplicateSet

\* C5 as stated: every never-replicated unmanaged workload of a source
\* instance has exactly one upsert row, shared hostnames included.
C5_Original ==
    Reconciled =>
        \A a \in Names(pceList) : \A k \in 1..Len(wklds[a]) :
            (IsSource(a) /\ NeverReplicated(wklds[a][k]))
                => Cardinality(ClaimRows(a, wklds[a][k])) = 1

\* C5 amended: such a workload has exactly one upsert row when it is the last
\* unmanaged workload of its hostname in its instance's list, and none when a
\* later unmanaged workload of that list shares its hostname.
C5_OneClaimPerHostname ==
    Reconciled =>
        \A a \in Names(pceList) : \A k \in 1..Len(wklds[a]) :
            (IsSource(a) /\ NeverReplicated(wklds[a][k]))
                => Cardinality(ClaimRows(a, wklds[a][k]))
                     = IF LastOfHostname(a, k) THEN 1 ELSE 0

C5_Witness ==
    /\ Reconciled
    /\ \E a \in Names(pceList) : \E k, x \in 1..Len(wklds[a]) :
        /\ IsSource(a) /\ k < x
        /\ NeverReplicated(wklds[a][k]) /\ NeverReplicated(wklds[a][x])
        /\ wklds[a][k].hostname = wklds[a][x].hostname
        /\ Cardinality(ClaimRows(a, wklds[a][x])) = 1
        /\ ClaimRows(a, wklds[a][k]) = {}

\* C6: in a run that follows a fully applied run (every import succeeded, all
\* deletes made, same flags, nothing else changed on the PCEs) no delete is
\* scheduled and applying the upsert batch changes no workload.
C6_Idempotent ==
    (run > 1 /\ clean) => (Len(wkldDeleteCsvdata) <= 1 /\ ~changed)

SkipSourceNotListed == \E k \in 1..Len(skipSources) : skipSources[k] \notin Names(pceList)

\* C7 as stated: a skip-source name outside pce-list ends the run with no API
\* call made and no instance resolved.
C7_Original ==
    exit = "skip-source" => (apiCalls = <<>> /\ pces = <<>>)

\* C7 amended: a skip-source name outside pce-list ends the run in a fatal
\* error: the run never gets to label discovery, workload listing, the CSVs
\* or a mutating call.  The check comes after every pce-list name has been
\* resolved, so the calls made by then are those of resolving the instances.
C7_SkipSourceNotListedFatal ==
    /\ SkipSourceNotListed =>
        /\ pc \in {"resolve", "skipcheck", "fatal"}
        /\ \A k \in 1..Len(apiCalls) : apiCalls[k].op = "GetLabels"
        /\ files = {}
    /\ (SkipSourceNotListed /\ pc = "fatal") => exit \in {"skip-source", "GetPCEbyName"}
    /\ exit = "skip-source" => (pc = "fatal" /\ Len(pces) = Len(pceList))

C7_Witness ==
    /\ SkipSourceNotListed
    /\ pc = "fatal" /\ exit = "skip-source"
    /\ Len(apiCalls) = Len(pceList)

\* the apply phase was entered
Applying == \E k \in 1..Len(apiCalls) : Mutating(apiCalls[k])
RunEnded == pc \in {"done", "fatal"}
Attempted(name, op, arg) ==
    \E k \in 1..Len(apiCalls) :
        apiCalls[k].pce = name /\ apiCalls[k].op = op /\ apiCalls[k].arg = arg

\* C8: once the apply phase has begun, the run ends only after the import on
\* every instance and every scheduled DeleteHref have been attempted, whether
\* or not one of them failed.
C8_ApplyContinuesAfterFailure ==
    (Applying /\ RunEnded) =>
        \A k \in 1..Len(pces) :
            /\ Len(wkldImportCsvData) > 1 =>
                  Attempted(pces[k].FriendlyName, "ImportWkldsFromCSV", <<>>)
            /\ \A h \in Names(Get(deleteHrefMap, pces[k].FQDN)) :
                  Attempted(pces[k].FriendlyName, "DeleteHref", h)

\* a collection call failed, or a collected instance holds a workload
\* without a hostname
CollectionFailed ==
    \E k \in 1..Len(apiCalls) :
        \/ apiCalls[k].op \in {"GetLabelDimensions", "GetWklds"} /\ apiCalls[k].err
        \/ apiCalls[k].op = "GetWklds" /\ HostnameMissing(wklds[apiCalls[k].pce])

\* C9: a failure of GetLabelDimensions or GetWklds, or a workload without a
\* hostname on a collected instance, ends the run at once: no CSV file has
\* been written and no mutating call made.
C9_CollectionFailureAborts ==
    CollectionFailed =>
        /\ pc = "fatal"
        /\ exit \in {"GetLabelDimensions", "GetWklds", "hostname"}
        /\ files = {}
        /\ MutatingCalls = {}

C9_Witness ==
    /\ pc = "fatal" /\ exit = "GetWklds"
    /\ \E k \in 1..Len(apiCalls) : apiCalls[k].op = "GetWklds" /\ ~apiCalls[k].err
    /\ \E m \in DOMAIN managedWkldMap : TRUE

\* C10 as stated: past the CSV step both files have been written.
C10_Original ==
    PastWrite => files = {"wkld-import", "wkld-delete"}

\* C10 amended: past the CSV step, in dry-run and execute mode alike, the
\* upsert CSV has been written exactly when the upsert batch has a data row
\* and the delete CSV exactly when the delete batch has one; a header-only
\* batch is not written.
C10_FilesIffRows ==
    PastWrite =>
        /\ "wkld-import" \in files <=> Len(wkldImportCsvData) > 1
        /\ "wkld-delete" \in files <=> Len(wkldDeleteCsvdata) > 1

C10_Witness ==
    /\ pc = "done" /\ exit = "complete"
    /\ files = {"wkld-import"}
    /\ Len(wkldDeleteCsvdata) = 1

\* ---------------------------------------------------- the upsert rows
UpsertRows == 2..Len(wkldImportCsvData)
RowRef(k) == wkldImportCsvData[k][Len(wkldImportCsvData[k])]
RowSet(k) == wkldImportCsvData[k][Len(wkldImportCsvData[k]) - 1]
\* the rows of the collection loop, of the first-time claim and of the refresh
ManagedRows == { k \in UpsertRows : wkldImportCsvData[k][3][1] = "managed ven on " }
FirstClaimRows ==
    { k \in UpsertRows : \E a \in KnownPCEs : \E x \in 1..Len(wklds[a]) :
        NeverReplicated(wklds[a][x]) /\ k \in ClaimRows(a, wklds[a][x]) }
RefreshRows ==
    { k \in UpsertRows : \E a \in KnownPCEs : \E x \in 1..Len(wklds[a]) :
        /\ IsUnmanaged(wklds[a][x]) /\ wklds[a][x].eds = WkldReplicateSet
        /\ wkldImportCsvData[k][1] = <<a>>
        /\ wkldImportCsvData[k][2] = wklds[a][x].hostname
        /\ wkldImportCsvData[k][3][1] = "unmanaged workload on "
        /\ RowRef(k) = wklds[a][x].ref }

\* C11: the header and every row of the upsert batch, whichever branch
\* appended it, have exactly 3 + |labelKeys| + 3 columns.
C11_RowWidth ==
    \A k \in 1..Len(wkldImportCsvData) :
        Len(wkldImportCsvData[k]) = 3 + Len(labelKeys) + 3

C11_Witness ==
    /\ Reconciled
    /\ Len(labelKeys) = 3
    /\ ManagedRows # {} /\ FirstClaimRows # {} /\ RefreshRows # {}
    /\ \E k \in ManagedRows : \E c \in 4..6 : wkldImportCsvData[k][c] = RemoveValue

\* row k was appended for workload w of instance a
RowOf(k, a, w) ==
    /\ wkldImportCsvData[k][1] = <<a>>
    /\ wkldImportCsvData[k][2] = w.hostname
    /\ \/ ~IsUnmanaged(w) /\ k \in ManagedRows /\ RowRef(k) = FQDN(a) \o ManagedSep \o w.href
       \/ NeverReplicated(w) /\ k \notin ManagedRows /\ RowRef(k) = FQDN(a) \o UnmanagedSep \o w.href
       \/ /\ IsUnmanaged(w) /\ w.eds = WkldReplicateSet
          /\ k \notin ManagedRows /\ RowRef(k) = w.ref

\* what the column of label key key holds for workload w
LabelColumn(w, key) ==
    IF \E l \in w.labels : l.key = key
    THEN (CHOOSE l \in w.labels : l.key = key).value
    ELSE RemoveValue

\* C12: in every upsert row the column of each label key holds the value of
\* the workload's label of that key, and the sentinel wkld-replicate-remove
\* when the workload has no such label; it is never empty for a missing label.
C12_LabelColumns ==
    Reconciled =>
        \A k \in UpsertRows :
            /\ \E a \in KnownPCEs : \E x \in 1..Len(wklds[a]) : RowOf(k, a, wklds[a][x])
            /\ \A a \in KnownPCEs : \A x \in 1..Len(wklds[a]) :
                  RowOf(k, a, wklds[a][x]) =>
                      \A c \in 1..Len(labelKeys) :
                          /\ wkldImportCsvData[k][3 + c] = LabelColumn(wklds[a][x], labelKeys[c])
                          /\ (~\E l \in wklds[a][x].labels : l.key = labelKeys[c])
                                => wkldImportCsvData[k][3 + c] # <<>>

C12_Witness ==
    /\ Reconciled
    /\ \E k \in ManagedRows : \E c, d \in 1..Len(labelKeys) :
          /\ wkldImportCsvData[k][3 + c] = <<"web">>
          /\ wkldImportCsvData[k][3 + d] = RemoveValue
    /\ \E k \in FirstClaimRows : \A c \in 1..Len(labelKeys) :
          wkldImportCsvData[k][3 + c] = RemoveValue
    /\ \E k \in RefreshRows : \A c \in 1..Len(labelKeys) :
          wkldImportCsvData[k][3 + c] = RemoveValue

ListPos(name) == CHOOSE k \in 1..Len(pceList) : pceList[k] = name
\* import before delete on one instance
OpRank(c) == IF c.op = "ImportWkldsFromCSV" THEN 1 ELSE 2
\* the workloads of every source instance have been fetched, before call m
AllCollectedBefore(m) ==
    \A a \in Names(pceList) :
        IsSource(a) => \E k \in 1..(m - 1) :
            apiCalls[k].pce = a /\ apiCalls[k].op = "GetWklds" /\ ~apiCalls[k].err

\* what holds of the calls made so far
OrderedCalls ==
    /\ \A m \in MutatingCalls :
          /\ AllCollectedBefore(m)
          /\ \A k \in (m + 1)..Len(apiCalls) : Mutating(apiCalls[k])
    /\ MutatingCalls # {} =>
          /\ pc \in {"import", "delete", "done", "fatal"}
          /\ PastWrite
    /\ \A m, n \in MutatingCalls :
          m < n =>
              \/ ListPos(apiCalls[m].pce) < ListPos(apiCalls[n].pce)
              \/ /\ apiCalls[m].pce = apiCalls[n].pce
                 /\ OpRank(apiCalls[m]) <= OpRank(apiCalls[n])
    /\ \A m \in MutatingCalls :
          (apiCalls[m].op = "DeleteHref" /\ HasRows(wkldImportCsvData)) =>
              \E k \in 1..(m - 1) :
                  apiCalls[k].pce = apiCalls[m].pce /\ apiCalls[k].op = "ImportWkldsFromCSV"

\* a step that issues a mutating call
MutatingStep ==
    /\ Len(apiCalls') = Len(apiCalls) + 1
    /\ Mutating(apiCalls'[Len(apiCalls')])

\* C14: every mutating call comes after the workloads of all source instances
\* were fetched, after reconciliation and after the CSV step, and from then on
\* neither batch nor workload map changes; mutating calls follow pce-list
\* order, and on each instance the import precedes every DeleteHref.
C14_Ordering ==
    /\ []OrderedCalls
    /\ [][ /\ MutatingStep => (pc \in {"import", "delete"} /\ PastWrite)
           /\ (pc \in {"import", "delete"}) => UNCHANGED <<batches, maps, keys>> ]_vars

C14_Witness ==
    /\ pceList = <<"B", "A">>
    /\ pc = "done" /\ exit = "complete"
    /\ Len(apiCalls) >= 3
    /\ apiCalls[Len(apiCalls) - 2] = Call("B", "ImportWkldsFromCSV", <<>>, FALSE)
    /\ apiCalls[Len(apiCalls) - 1].op = "DeleteHref" /\ apiCalls[Len(apiCalls) - 1].pce = "B"
    /\ apiCalls[Len(apiCalls)] = Call("A", "ImportWkldsFromCSV", <<>>, FALSE)

\* an instance of pce-list, skip-source or not, runs a version below 22.5
BelowMT4L == \E a \in Names(pceList) \cap KnownPCEs : version[a][1] * 100 + version[a][2] < 2205
DimensionCalls == { k \in 1..Len(apiCalls) : apiCalls[k].op = "GetLabelDimensions" }
\* the label keys have been chosen
KeysChosen == pc \in {"collect", "reconcile", "write", "gate", "import", "delete", "done"}
                \/ (pc = "fatal" /\ exit \in {"GetWklds", "hostname", "DeleteHref"})

\* C15: when an instance of pce-list is below version 22.5 the label keys are
\* role, app, env, loc in that order and GetLabelDimensions is never called;
\* otherwise the keys are those GetLabelDimensions returns for the first
\* instance of pce-list, in that order, and it is the one instance asked.
C15_LabelKeySelection ==
    /\ BelowMT4L => DimensionCalls = {}
    /\ \A k \in DimensionCalls : apiCalls[k].pce = pceList[1]
    /\ Cardinality(DimensionCalls) <= 1
    /\ KeysChosen =>
          IF BelowMT4L
          THEN labelKeys = << <<"role">>, <<"app">>, <<"env">>, <<"loc">> >>
          ELSE /\ labelKeys = Dimensions(pceList[1])
               /\ Cardinality(DimensionCalls) = 1

\* the second instance is at 22.4 and the first, newer, is not asked for its
\* dimensions
C15_Witness ==
    /\ KeysChosen /\ pc = "done"
    /\ pceList = <<"A", "B">>
    /\ version["A"] = <<23, 0>> /\ version["B"] = <<22, 4>>
    /\ labelKeys = LegacyKeys
    /\ DimensionCalls = {}

\* the instances of pce-list named in skip-source
Skipped == Names(skipSources) \cap Names(pceList)
CallsTo(a, op) == { k \in 1..Len(apiCalls) : apiCalls[k].pce = a /\ apiCalls[k].op = op }

\* C16: an instance named in skip-source has no workloads fetched, no entry in
\* the managed or the unmanaged map, no upsert row, no delete row and no
\* scheduled delete; a run that completes with a non-empty upsert batch has
\* imported it once into every instance of pce-list, the skipped ones included.
C16_SkipSourceFrame ==
    /\ \A a \in Skipped :
          /\ CallsTo(a, "GetWklds") = {}
          /\ \A key \in DOMAIN managedWkldMap : managedWkldMap[key].pce.FriendlyName # a
          /\ \A key \in DOMAIN unmanagedWkldMap : unmanagedWkldMap[key].pce.FriendlyName # a
          /\ \A k \in UpsertRows : wkldImportCsvData[k][1] # <<a>>
          /\ \A k \in 2..Len(wkldDeleteCsvdata) :
                wkldDeleteCsvdata[k][3] # <<a>> /\ wkldDeleteCsvdata[k][2] # FQDN(a)
          /\ Get(deleteHrefMap, FQDN(a)) = <<>>
          /\ CallsTo(a, "DeleteHref") = {}
    /\ (pc = "done" /\ exit = "complete" /\ Len(wkldImportCsvData) > 1) =>
          \A a \in Names(pceList) : Cardinality(CallsTo(a, "ImportWkldsFromCSV")) = 1

\* the skipped instance holds a workload and was given the batch of the other
C16_Witness ==
    /\ pc = "done" /\ exit = "complete"
    /\ Skipped # {} /\ Skipped # Names(pceList)
    /\ \A a \in Skipped :
          /\ \E k \in CallsTo(a, "ImportWkldsFromCSV") : ~apiCalls[k].err
          /\ \E x \in 1..Len(wklds[a]) : wklds[a][x].href \in {Href(h) : h \in 1..MaxWklds}
    /\ Len(wkldImportCsvData) > 1

\* the hrefs scheduled for deletion on instance a
ScheduledOn(a) == Names(Get(deleteHrefMap, FQDN(a)))

\* a workload of instance a that may be deleted: collected in this run,
\* unmanaged, replicated, the text of its reference before -unmanaged-wkld-
\* not a's address, and no upsert row appended for it
Deletable(a, w) ==
    /\ IsSource(a)
    /\ IsUnmanaged(w)
    /\ w.eds = WkldReplicateSet
    /\ SplitFirst(w.ref, UnmanagedSep) # FQDN(a)
    /\ ~\E k \in UpsertRows : RowOf(k, a, w)

====
